---- MODULE Spec2Model ----
(***************************************************************************)
(* Model of the katas of yamixail/js-assignments:                          *)
(*   findStringInSnakingPuzzle, getMostProfitFromStockQuotes, UrlShortener *)
(*   (src/unnamed/part_000), cssSelectorBuilder (src/unnamed/part_001) and *)
(*   canDominoesMakeRow (src/task/10-katas-1-tasks.js).                    *)
(* JavaScript strings are sequences of one-character strings; array and    *)
(* string indices are 0-based as in the source.                            *)
(***************************************************************************)
EXTENDS Integers, Sequences, FiniteSets, TLC

VARIABLES
    \* findStringInSnakingPuzzle
    puzzle,        \* the argument puzzle: rows, each a string
    searchStr,     \* the argument searchStr
    puzzleArr,     \* line 31: puzzle.map( el => el.split( '' ) )
    firstChar,     \* line 33
    row, coll,     \* line 35: the scan loops' counters
    stack,         \* the active snakeFind calls, innermost last
    blockedCells,  \* the array shared by all snakeFind calls of one attempt
    retval,        \* the value the last finished snakeFind call returned
    result,        \* what findStringInSnakingPuzzle returned
    pc,            \* where the call stands
    order,         \* line 32: the order of the helpers in getLettersAround
    earlier,       \* what the earlier calls with these arguments returned
    \* getMostProfitFromStockQuotes
    quotes, qi, buyPositions, profit, stockPc,
    \* UrlShortener
    url, shortLink, original, urlPc,
    \* canDominoesMakeRow
    dominoes, domResult, domPc,
    \* cssSelectorBuilder
    objs,          \* the selector object of the chain being built, if any
    parts,         \* for it, the calls that returned: <<method, value>> each
    lastCall       \* the last call made: [ctx, method, thrown]

snakeVars == <<puzzle, searchStr, puzzleArr, firstChar, row, coll, stack,
               blockedCells, retval, result, pc, order, earlier>>
stockVars == <<quotes, qi, buyPositions, profit, stockPc>>
urlVars == <<url, shortLink, original, urlPc>>
domVars == <<dominoes, domResult, domPc>>
cssVars == <<objs, parts, lastCall>>
vars == <<snakeVars, stockVars, urlVars, domVars, cssVars>>

(***************************************************************************)
(* Bounds of the model.                                                    *)
(***************************************************************************)
MaxCells == 6
MaxQuery == 5
\* The same for the behaviours checked for termination, for the calls made
\* with every order of the helpers, and for the grids with unequal rows.
MaxFairCells == 4
MaxFairQuery == 4
\* Grids with unequal rows: how many rows.
MaxRows == 3
\* Stock quotes: how many, and the highest price.
MaxQuotes == 4
MaxPrice == 3
\* Urls: the longest.
MaxUrl == 3
\* Dominoes: how many tiles, and the highest value on a tile.
MaxTiles == 3
MaxPip == 3
\* Selectors: how many parts one chain of calls adds.
MaxParts == 4
Chars == {"A", "B"}

Undefined == "undefined"
\* No value yet; the booleans a call returns are "true" and "false".
None == "none"
Bool(b) == IF b THEN "true" ELSE "false"

\* JavaScript's s[ i ] on a string or an array of characters: undefined
\* outside it.
Get(s, i) == IF i \in 0..(Len(s) - 1) THEN s[i + 1] ELSE Undefined

\* Whether arr[ r ] is an element of the array arr (else it is undefined).
Has(arr, r) == r \in 0..(Len(arr) - 1)

\* JavaScript's truthiness of a character or undefined.
Truthy(ch) == ch /= Undefined /\ ch /= ""

\* String.prototype.split( '' )
split(s) == [k \in 1..Len(s) |-> s[k]]

\* String.prototype.charAt
charAt(s, k) == IF k \in 0..(Len(s) - 1) THEN s[k + 1] ELSE ""

\* String.prototype.slice( 1 )
slice1(s) == IF Len(s) = 0 THEN <<>> ELSE SubSeq(s, 2, Len(s))

(***************************************************************************)
(* findStringInSnakingPuzzle: the four direction helpers.  Each returns    *)
(* null, a letter object, or ends in a TypeError (a property read of       *)
(* undefined).                                                             *)
(***************************************************************************)
Null == [letter |-> "null", row |-> -1, coll |-> -1]
TypeError == [letter |-> "TypeError", row |-> -1, coll |-> -1]

\* lines 103-109
\* (mutant: reading a row beyond its length is an error, not undefined)
getLetterObjStrict(arr, r, c) ==
    IF ~Has(arr, r) THEN TypeError
    ELSE IF Get(arr[r + 1], c) = Undefined THEN TypeError
    ELSE [letter |-> Get(arr[r + 1], c), row |-> r, coll |-> c]
getLetterObj(arr, r, c) ==
    IF ~Has(arr, r) THEN TypeError
    ELSE [letter |-> Get(arr[r + 1], c), row |-> r, coll |-> c]

\* lines 79-83
\* (mutant: the row above is not checked to exist)
getTopLetterUnchecked(arr, r, c) == getLetterObj(arr, r - 1, c)
getTopLetter(arr, r, c) ==
    IF ~Has(arr, r - 1) THEN Null ELSE getLetterObj(arr, r - 1, c)

\* lines 85-89
getRightLetter(arr, r, c) ==
    IF ~Has(arr, r) THEN TypeError
    ELSE IF ~Truthy(Get(arr[r + 1], c + 1)) THEN Null
    ELSE getLetterObj(arr, r, c + 1)

\* lines 91-95
getBottomLetter(arr, r, c) ==
    IF ~Has(arr, r + 1) THEN Null ELSE getLetterObj(arr, r + 1, c)

\* lines 97-101
\* (mutant: ++coll for --coll)
getLeftLetterAsRight(arr, r, c) ==
    IF ~Has(arr, r) THEN TypeError
    ELSE IF ~Truthy(Get(arr[r + 1], c + 1)) THEN Null
    ELSE getLetterObj(arr, r, c + 1)
getLeftLetter(arr, r, c) ==
    IF ~Has(arr, r) THEN TypeError
    ELSE IF ~Truthy(Get(arr[r + 1], c - 1)) THEN Null
    ELSE getLetterObj(arr, r, c - 1)

\* line 32: the order of the helpers as the source has it
CodeOrder == <<"top", "right", "bottom", "left">>

\* line 55: fn.call( null, row, coll ) for the helper named dir
letterAt(dir, arr, r, c) ==
    CASE dir = "top" -> getTopLetter(arr, r, c)
      [] dir = "right" -> getRightLetter(arr, r, c)
      [] dir = "bottom" -> getBottomLetter(arr, r, c)
      [] dir = "left" -> getLeftLetter(arr, r, c)

\* lines 32, 55: the helpers' results in the order they are tried
getLettersAround(arr, r, c) == [k \in DOMAIN order |-> letterAt(order[k], arr, r, c)]

\* Array.prototype.filter on a sequence
RECURSIVE SelectSeqOf(_, _)
SelectSeqOf(s, keep) ==
    IF s = <<>> THEN <<>>
    ELSE IF Head(s) \in keep THEN <<Head(s)>> \o SelectSeqOf(Tail(s), keep)
    ELSE SelectSeqOf(Tail(s), keep)

Range(s) == {s[k] : k \in DOMAIN s}

\* lines 58-60: no blocked cell has el's coordinates
\* (mutant: blocked cells are not filtered out)
NotBlockedAlways(el, blocked) == TRUE
NotBlocked(el, blocked) ==
    \A k \in DOMAIN blocked : blocked[k][1] /= el.row \/ blocked[k][2] /= el.coll

\* lines 55-61: the neighbours that carry findLetter and are not blocked
lettersAroundOf(arr, r, c, findLetter, blocked) ==
    LET around == getLettersAround(arr, r, c)
        keep1 == {el \in Range(around) : el /= Null /\ el.letter = findLetter}
        keep2 == {el \in keep1 : NotBlocked(el, blocked)}
    IN  SelectSeqOf(SelectSeqOf(around, keep1), keep2)

ThrowsAround(arr, r, c) == TypeError \in Range(getLettersAround(arr, r, c))

Top == stack[Len(stack)]
Caller == SubSeq(stack, 1, Len(stack) - 1)
\* A call of snakeFind: its arguments, its locals, and (entered) blockedCells
\* as the call found it.
Frame(r, c, s, blocked) ==
    [row |-> r, coll |-> c, searchStr |-> s, lettersAround |-> <<>>, i |-> 0,
     entered |-> blocked]

IdleSnake ==
    /\ puzzle = <<>> /\ searchStr = <<>> /\ puzzleArr = <<>> /\ firstChar = ""
    /\ row = 0 /\ coll = 0 /\ stack = <<>> /\ blockedCells = <<>>
    /\ retval = None /\ result = None /\ pc = "idle"
    /\ order = CodeOrder /\ earlier = <<>>
IdleStock ==
    quotes = <<>> /\ qi = 0 /\ buyPositions = <<>> /\ profit = 0 /\ stockPc = "idle"
IdleUrl == url = <<>> /\ shortLink = <<>> /\ original = <<>> /\ urlPc = "idle"
IdleDom == dominoes = <<>> /\ domResult = None /\ domPc = "idle"
IdleCss ==
    objs = <<>> /\ parts = <<>> /\ lastCall = [ctx |-> 0, method |-> "", thrown |-> "none"]

\* lines 30-35: the call with its arguments; the loops are about to start
Called(p, s) ==
    /\ puzzle = p /\ searchStr = s
    /\ puzzleArr = [k \in DOMAIN p |-> split(p[k])]
    /\ firstChar = charAt(s, 0)
    /\ row = 0 /\ coll = 0 /\ stack = <<>> /\ blockedCells = <<>>
    /\ retval = None /\ result = None /\ pc = "scan"
    /\ order = CodeOrder /\ earlier = <<>>

\* The rectangular grids of at most MaxCells cells, none of them empty.
Shapes(cells) == {rc \in (1..cells) \X (1..cells) : rc[1] * rc[2] <= cells}
Grids(cells) == UNION {[1..rc[1] -> [1..rc[2] -> Chars]] : rc \in Shapes(cells)}
Queries(len) == UNION {[1..n -> Chars] : n \in 0..len}

InitSnake ==
    /\ \E p \in Grids(MaxCells), s \in Queries(MaxQuery) : Called(p, s)
    /\ IdleStock /\ IdleUrl /\ IdleDom /\ IdleCss

InitSnakeFair ==
    /\ \E p \in Grids(MaxFairCells), s \in Queries(MaxFairQuery) : Called(p, s)
    /\ IdleStock /\ IdleUrl /\ IdleDom /\ IdleCss

\* line 40, third argument: [[row, coll]], a new array for every attempt
\* (mutant: one visited list that outlives the attempt and the call)
startCellsShared(blocked, r, c) == Append(blocked, <<r, c>>)
startCells(blocked, r, c) == << <<r, c>> >>

\* line 40, first operand: the cell is the first character of the query
\* (mutant: an empty first character matches every cell)
IsFirstCharOrNone(ch, first) == first = "" \/ ch = first
IsFirstChar(ch, first) == ch = first

otherThanSnake == <<stockVars, urlVars, domVars, cssVars>>
args == <<puzzle, searchStr, puzzleArr, firstChar, order, earlier>>

\* line 40, first operand false: the cell is not the first character
ScanNoMatch ==
    /\ pc = "scan" /\ row < Len(puzzleArr) /\ coll < Len(puzzleArr[row + 1])
    /\ ~IsFirstChar(puzzleArr[row + 1][coll + 1], firstChar)
    /\ coll' = coll + 1
    /\ UNCHANGED <<args, row, stack, blockedCells, retval, result, pc, otherThanSnake>>

\* lines 40-41: the cell is the first character: snakeFind is called
ScanCall ==
    /\ pc = "scan" /\ row < Len(puzzleArr) /\ coll < Len(puzzleArr[row + 1])
    /\ IsFirstChar(puzzleArr[row + 1][coll + 1], firstChar)
    /\ blockedCells' = startCells(blockedCells, row, coll)
    /\ stack' = <<Frame(row, coll, slice1(searchStr), blockedCells')>>
    /\ pc' = "enter"
    /\ UNCHANGED <<args, row, coll, retval, result, otherThanSnake>>

\* lines 37-38: the inner loop is over, the next row starts
ScanNextRow ==
    /\ pc = "scan" /\ row < Len(puzzleArr) /\ coll >= Len(puzzleArr[row + 1])
    /\ row' = row + 1 /\ coll' = 0
    /\ UNCHANGED <<args, stack, blockedCells, retval, result, pc, otherThanSnake>>

\* line 47: both loops are over
ScanEnd ==
    /\ pc = "scan" /\ row >= Len(puzzleArr)
    /\ result' = "false" /\ pc' = "done"
    /\ UNCHANGED <<args, row, coll, stack, blockedCells, retval, otherThanSnake>>

\* line 50: nothing is left to find
FindEmpty ==
    /\ pc = "enter" /\ Len(Top.searchStr) = 0
    /\ stack' = Caller /\ retval' = "true" /\ pc' = "ret"
    /\ UNCHANGED <<args, row, coll, blockedCells, result, otherThanSnake>>

\* lines 52-61: the candidates of this call are computed
FindFilter ==
    /\ pc = "enter" /\ Len(Top.searchStr) > 0
    /\ IF ThrowsAround(puzzleArr, Top.row, Top.coll)
       THEN pc' = "error" /\ UNCHANGED stack
       ELSE /\ stack' = [stack EXCEPT ![Len(stack)].lettersAround =
                    lettersAroundOf(puzzleArr, Top.row, Top.coll,
                                    charAt(Top.searchStr, 0), blockedCells)]
            /\ pc' = "loop"
    /\ UNCHANGED <<args, row, coll, blockedCells, retval, result, otherThanSnake>>

\* lines 64-70: the next candidate is pushed and snakeFind is called on it
LoopPush ==
    /\ pc = "loop" /\ Top.i < Len(Top.lettersAround)
    /\ LET el == Top.lettersAround[Top.i + 1] IN
         /\ blockedCells' = Append(blockedCells, <<el.row, el.coll>>)
         /\ stack' = Append(stack, Frame(el.row, el.coll, slice1(Top.searchStr),
                                         Append(blockedCells, <<el.row, el.coll>>)))
    /\ pc' = "enter"
    /\ UNCHANGED <<args, row, coll, retval, result, otherThanSnake>>

\* line 76: no candidate is left
LoopExhausted ==
    /\ pc = "loop" /\ Top.i >= Len(Top.lettersAround)
    /\ stack' = Caller /\ retval' = "false" /\ pc' = "ret"
    /\ UNCHANGED <<args, row, coll, blockedCells, result, otherThanSnake>>

\* (mutant of lines 70-71: the true of the inner call is ignored, the cell is
\* popped and the next neighbour tried)
RetTrueInnerIgnored ==
    /\ pc = "ret" /\ retval = "true" /\ stack /= <<>>
    /\ blockedCells' = SubSeq(blockedCells, 1, Len(blockedCells) - 1)
    /\ stack' = [stack EXCEPT ![Len(stack)].i = @ + 1]
    /\ pc' = "loop"
    /\ UNCHANGED <<args, row, coll, retval, result, otherThanSnake>>

\* lines 70-71: the inner call returned true: this call returns true
RetTrueInner ==
    /\ pc = "ret" /\ retval = "true" /\ stack /= <<>>
    /\ stack' = Caller
    /\ UNCHANGED <<args, row, coll, blockedCells, retval, result, pc, otherThanSnake>>

\* lines 41-42: the outermost call returned true
RetTrueOuter ==
    /\ pc = "ret" /\ retval = "true" /\ stack = <<>>
    /\ result' = "true" /\ pc' = "done"
    /\ UNCHANGED <<args, row, coll, stack, blockedCells, retval, otherThanSnake>>

\* lines 70-73: the inner call returned false: pop, next candidate
\* (mutant: the cell of a failed candidate stays blocked)
popKeep(blocked) == blocked
pop(blocked) == SubSeq(blocked, 1, Len(blocked) - 1)

\* (mutant of lines 70-73: return snakeFind( ... ), the call returns what its
\* first neighbour returned and tries no other)
RetFalseInnerReturn ==
    /\ pc = "ret" /\ retval = "false" /\ stack /= <<>>
    /\ stack' = Caller
    /\ UNCHANGED <<args, row, coll, blockedCells, retval, result, pc, otherThanSnake>>

RetFalseInner ==
    /\ pc = "ret" /\ retval = "false" /\ stack /= <<>>
    /\ blockedCells' = pop(blockedCells)
    /\ stack' = [stack EXCEPT ![Len(stack)].i = @ + 1]
    /\ pc' = "loop"
    /\ UNCHANGED <<args, row, coll, retval, result, otherThanSnake>>

\* lines 38-41: the outermost call returned false: the scan goes on
RetFalseOuter ==
    /\ pc = "ret" /\ retval = "false" /\ stack = <<>>
    /\ coll' = coll + 1 /\ pc' = "scan"
    /\ UNCHANGED <<args, row, stack, blockedCells, retval, result, otherThanSnake>>

NextSnake ==
    \/ ScanNoMatch \/ ScanCall \/ ScanNextRow \/ ScanEnd
    \/ FindEmpty \/ FindFilter \/ LoopPush \/ LoopExhausted
    \/ RetTrueInner \/ RetTrueOuter \/ RetFalseInner \/ RetFalseOuter

Spec == InitSnake /\ [][NextSnake]_vars

\* The call runs to its end: JavaScript does not suspend a running function.
SpecFair == InitSnakeFair /\ [][NextSnake]_vars /\ WF_vars(NextSnake)

\* lines 30-35 once more: after the call returned, a second call with the
\* grid and the query as the first call left them, trying the helpers in the
\* order o.  Everything the function declares (lines 31-35, 49-109) is local
\* to the call, so the second call starts from new locals; blockedCells is
\* the argument of line 40 and is whatever startCells makes of it.
CallWith(o) ==
    /\ pc = "done" /\ earlier = <<>>
    /\ earlier' = <<result>>
    /\ order' = o
    /\ puzzleArr' = [k \in DOMAIN puzzle |-> split(puzzle[k])]
    /\ firstChar' = charAt(searchStr, 0)
    /\ row' = 0 /\ coll' = 0 /\ stack' = <<>>
    /\ retval' = None /\ result' = None /\ pc' = "scan"
    /\ UNCHANGED <<puzzle, searchStr, blockedCells, otherThanSnake>>

CallAgain == CallWith(CodeOrder)

\* line 32 with the four helpers in another order
Orders ==
    {o \in [1..Len(CodeOrder) -> Range(CodeOrder)] : Range(o) = Range(CodeOrder)}

\* the second call tries the helpers in any order
CallPermuted == \E o \in Orders : CallWith(o)

NextTwice == NextSnake \/ CallAgain

SpecTwice == InitSnake /\ [][NextTwice]_vars

\* The malformed grids of at most cells cells: the grid of no rows, and the
\* grids whose rows (at most MaxRows, some perhaps empty) are not all of the
\* same length.
RECURSIVE Total(_)
Total(lens) == IF lens = <<>> THEN 0 ELSE Head(lens) + Total(Tail(lens))

RowLengths(cells) ==
    {lens \in UNION {[1..r -> 0..cells] : r \in 0..MaxRows} :
        /\ Total(lens) <= cells
        /\ lens = <<>> \/ \E j, k \in DOMAIN lens : lens[j] /= lens[k]}

RECURSIVE GridsOf(_)
GridsOf(lens) ==
    IF lens = <<>> THEN {<<>>}
    ELSE {<<rw>> \o g : rw \in [1..Head(lens) -> Chars], g \in GridsOf(Tail(lens))}

Malformed(cells) == UNION {GridsOf(lens) : lens \in RowLengths(cells)}

InitMalformed ==
    /\ \E p \in Malformed(MaxFairCells), s \in Queries(MaxFairQuery) \ {<<>>} :
          Called(p, s)
    /\ IdleStock /\ IdleUrl /\ IdleDom /\ IdleCss

SpecMalformed == InitMalformed /\ [][NextSnake]_vars

NextOrder == NextSnake \/ CallPermuted

SpecOrder == InitSnakeFair /\ [][NextOrder]_vars

(***************************************************************************)
(* getMostProfitFromStockQuotes (part_000 lines 161-179)                   *)
(***************************************************************************)
RECURSIVE MaxOf(_)
MaxOf(s) == IF Len(s) = 1 THEN s[1]
            ELSE IF s[1] >= MaxOf(Tail(s)) THEN s[1] ELSE MaxOf(Tail(s))

\* quotes.slice( i + 1 )
sliceFrom(s, i) == SubSeq(s, i + 1, Len(s))

\* lines 168, 170: price < Math.max of the later quotes; Math.max of nothing
\* is -Infinity, which no price is below.
\* (mutant: only the next day's quote is looked at)
LessThanNext(price, later) == later /= <<>> /\ price < later[1]
LessThanMax(price, later) == later /= <<>> /\ price < MaxOf(later)

\* line 173: the reduce
RECURSIVE SumGains(_, _)
SumGains(buys, price) ==
    IF buys = <<>> THEN 0
    ELSE (price - buys[1]) + SumGains(Tail(buys), price)

otherThanStock == <<snakeVars, urlVars, domVars, cssVars>>

InitStock ==
    /\ \E n \in 0..MaxQuotes : quotes \in [1..n -> 0..MaxPrice]
    /\ qi = 0 /\ buyPositions = <<>> /\ profit = 0 /\ stockPc = "loop"
    /\ IdleSnake /\ IdleUrl /\ IdleDom /\ IdleCss

\* lines 170-171
StockBuy ==
    /\ stockPc = "loop" /\ qi < Len(quotes)
    /\ LessThanMax(quotes[qi + 1], sliceFrom(quotes, qi + 1))
    /\ buyPositions' = Append(buyPositions, quotes[qi + 1])
    /\ qi' = qi + 1
    /\ UNCHANGED <<quotes, profit, stockPc, otherThanStock>>

\* lines 172-175
StockSell ==
    /\ stockPc = "loop" /\ qi < Len(quotes)
    /\ ~LessThanMax(quotes[qi + 1], sliceFrom(quotes, qi + 1))
    /\ Len(buyPositions) > 0
    /\ profit' = profit + SumGains(buyPositions, quotes[qi + 1])
    /\ buyPositions' = <<>>
    /\ qi' = qi + 1
    /\ UNCHANGED <<quotes, stockPc, otherThanStock>>

\* lines 170, 172: neither branch
StockSkip ==
    /\ stockPc = "loop" /\ qi < Len(quotes)
    /\ ~LessThanMax(quotes[qi + 1], sliceFrom(quotes, qi + 1))
    /\ Len(buyPositions) = 0
    /\ qi' = qi + 1
    /\ UNCHANGED <<quotes, buyPositions, profit, stockPc, otherThanStock>>

\* line 178
StockReturn ==
    /\ stockPc = "loop" /\ qi >= Len(quotes)
    /\ stockPc' = "done"
    /\ UNCHANGED <<quotes, qi, buyPositions, profit, otherThanStock>>

NextStock == StockBuy \/ StockSell \/ StockSkip \/ StockReturn

SpecStock == InitStock /\ [][NextStock]_vars

(***************************************************************************)
(* UrlShortener (part_000 lines 196-264).  A decimal string is a sequence  *)
(* of digits; a short link is the sequence of its code points.             *)
(***************************************************************************)
urlAllowedChars ==
    << "A","B","C","D","E","F","G","H","I","J","K","L","M",
       "N","O","P","Q","R","S","T","U","V","W","X","Y","Z",
       "a","b","c","d","e","f","g","h","i","j","k","l","m",
       "n","o","p","q","r","s","t","u","v","w","x","y","z",
       "0","1","2","3","4","5","6","7","8","9",
       "-","_",".","~","!","*","'","(",")",";",":","@","&","=","+","$",",",
       "/","?","#","[","]" >>

\* String.prototype.indexOf for one character: -1 when it is absent
indexOf(s, ch) ==
    IF \E k \in DOMAIN s : s[k] = ch
    THEN (CHOOSE k \in DOMAIN s : s[k] = ch /\ \A j \in 1..(k - 1) : s[j] /= ch) - 1
    ELSE -1

\* Number.prototype.toString: the decimal digits, no leading zero
RECURSIVE toString(_)
toString(n) == IF n < 10 THEN <<n>> ELSE Append(toString(n \div 10), n % 10)

\* Number( string ) as String.fromCodePoint and parseInt apply it to digits:
\* the empty string is 0
RECURSIVE toNumber(_)
toNumber(ds) ==
    IF ds = <<>> THEN 0
    ELSE 10 * toNumber(SubSeq(ds, 1, Len(ds) - 1)) + ds[Len(ds)]

\* lines 229-237
getXXPosition(ch) ==
    LET index == indexOf(urlAllowedChars, ch)
    IN  IF index > 9 THEN toString(index) ELSE <<0>> \o toString(index)

\* line 217: the last code is complete
\* (mutant: >= 2 for > 2, one character per code)
NeedsNewCodeAfterOne(lastCode) == Len(lastCode) >= 2
NeedsNewCode(lastCode) == Len(lastCode) > 2

\* lines 213-224: the reduce, from [ '' ]
RECURSIVE compress(_, _)
compress(res, codeArr) ==
    IF codeArr = <<>> THEN res
    ELSE IF NeedsNewCode(res[Len(res)])
         THEN compress(Append(res, codeArr[1]), Tail(codeArr))
         ELSE compress([res EXCEPT ![Len(res)] = @ \o codeArr[1]], Tail(codeArr))

\* lines 209-227
encode(u) ==
    LET codeArr == [k \in DOMAIN u |-> getXXPosition(u[k])]
        compressedCodes == compress(<< <<>> >>, codeArr)
    IN  [k \in DOMAIN compressedCodes |-> toNumber(compressedCodes[k])]

\* line 249: match( /.{2}/g ) on a string of even length
pairsOf(ds) == [k \in 1..(Len(ds) \div 2) |-> SubSeq(ds, 2 * k - 1, 2 * k)]

\* lines 246-249
positionsOf(codeDigits) ==
    pairsOf(IF Len(codeDigits) % 2 = 1 THEN <<0>> \o codeDigits ELSE codeDigits)

RECURSIVE concatAll(_)
concatAll(ss) == IF ss = <<>> THEN <<>> ELSE ss[1] \o concatAll(Tail(ss))

\* lines 239-251: the positions decode reads from the code points
codeArrOf(code) == concatAll([k \in DOMAIN code |-> positionsOf(toString(code[k]))])

\* lines 257-263: whether some position names no character
decodeThrows(code) ==
    \E k \in DOMAIN codeArrOf(code) :
        Get(urlAllowedChars, toNumber(codeArrOf(code)[k])) = Undefined

\* lines 253-254
decode(code) ==
    [k \in DOMAIN codeArrOf(code) |-> Get(urlAllowedChars, toNumber(codeArrOf(code)[k]))]

\* String.prototype.length: a code point above 0xFFFF takes two units
RECURSIVE length(_)
length(code) ==
    IF code = <<>> THEN 0
    ELSE (IF code[1] > 65535 THEN 2 ELSE 1) + length(Tail(code))

\* The characters urls are drawn from: positions 0, 1, 9, 10 and 83.
UrlChars == {"A", "B", "J", "K", "]"}

otherThanUrl == <<snakeVars, stockVars, domVars, cssVars>>

\* The urls: one to MaxUrl characters.
InitUrl ==
    /\ \E n \in 1..MaxUrl : url \in [1..n -> UrlChars]
    /\ shortLink = <<>> /\ original = <<>> /\ urlPc = "start"
    /\ IdleSnake /\ IdleStock /\ IdleDom /\ IdleCss

\* urlShortener.encode( url )
UrlEncode ==
    /\ urlPc = "start"
    /\ shortLink' = encode(url)
    /\ urlPc' = "encoded"
    /\ UNCHANGED <<url, original, otherThanUrl>>

\* urlShortener.decode( shortLink )
UrlDecode ==
    /\ urlPc = "encoded"
    /\ IF decodeThrows(shortLink)
       THEN urlPc' = "error" /\ UNCHANGED original
       ELSE urlPc' = "decoded" /\ original' = decode(shortLink)
    /\ UNCHANGED <<url, shortLink, otherThanUrl>>

NextUrl == UrlEncode \/ UrlDecode

SpecUrl == InitUrl /\ [][NextUrl]_vars

(***************************************************************************)
(* canDominoesMakeRow (10-katas-1-tasks.js lines 223-257)                  *)
(***************************************************************************)
\* line 236: the length of dominoesByNum
NumCount == 7

\* lines 224-237: dominoesByNum[ n ], the values paired with n, in order
RECURSIVE byNum(_, _)
byNum(d, n) ==
    IF d = <<>> THEN <<>>
    ELSE LET el == d[Len(d)]
             before == byNum(SubSeq(d, 1, Len(d) - 1), n)
         IN  IF el[1] = n THEN Append(before, el[2])
             ELSE IF el[2] = n THEN Append(before, el[1])
             ELSE before

\* lines 229, 231: a value with no array in dominoesByNum
reduceThrows(d) == \E k \in DOMAIN d : d[k][1] >= NumCount \/ d[k][2] >= NumCount

\* line 245
excludeFish(d, n) == SelectSeq(byNum(d, n), LAMBDA el : el /= n)

\* lines 242-256: the loop from i, with withoutPair so far
RECURSIVE domLoop(_, _, _)
domLoop(d, i, withoutPair) ==
    IF i >= NumCount THEN "true"
    ELSE IF Len(byNum(d, i)) = 0 THEN domLoop(d, i + 1, withoutPair)
    ELSE LET fishCount == Len(byNum(d, i)) - Len(excludeFish(d, i))
             odd == IF Len(excludeFish(d, i)) > 0
                    THEN withoutPair + (Len(excludeFish(d, i)) % 2)
                    ELSE withoutPair
         IN  IF Len(excludeFish(d, i)) = 0 /\ fishCount > 0
             THEN Bool(Len(d) = fishCount)
             ELSE IF odd > 2 THEN "false"
             ELSE domLoop(d, i + 1, odd)

canDominoesMakeRow(d) == IF reduceThrows(d) THEN "TypeError" ELSE domLoop(d, 0, 0)

\* The sets of the documentation (lines 217-220) and one of two triangles.
DocDominoes ==
    { << <<0, 1>>, <<1, 1>> >>,
      << <<1, 1>>, <<2, 2>>, <<1, 5>>, <<5, 6>>, <<6, 3>> >>,
      << <<1, 3>>, <<2, 3>>, <<1, 4>>, <<2, 4>>, <<1, 5>>, <<2, 5>> >>,
      << <<0, 0>>, <<0, 1>>, <<1, 1>>, <<0, 2>>, <<1, 2>>, <<2, 2>>, <<0, 3>>,
         <<1, 3>>, <<2, 3>>, <<3, 3>> >>,
      << <<1, 2>>, <<2, 3>>, <<3, 1>>, <<4, 5>>, <<5, 6>>, <<6, 4>> >> }

Tiles == (0..MaxPip) \X (0..MaxPip)

\* A subset of a domino set holds no tile twice, [ i, j ] being [ j, i ].
SameTile(a, b) == a = b \/ (a[1] = b[2] /\ a[2] = b[1])
NoTileTwice(d) == \A j, k \in DOMAIN d : j /= k => ~SameTile(d[j], d[k])

otherThanDom == <<snakeVars, stockVars, urlVars, cssVars>>

InitDom ==
    /\ \/ \E n \in 0..MaxTiles : dominoes \in {d \in [1..n -> Tiles] : NoTileTwice(d)}
       \/ dominoes \in DocDominoes
    /\ domResult = None /\ domPc = "start"
    /\ IdleSnake /\ IdleStock /\ IdleUrl /\ IdleCss

DomCall ==
    /\ domPc = "start"
    /\ domResult' = canDominoesMakeRow(dominoes)
    /\ domPc' = "done"
    /\ UNCHANGED <<dominoes, otherThanDom>>

NextDom == DomCall

SpecDom == InitDom /\ [][NextDom]_vars

(***************************************************************************)
(* cssSelectorBuilder and MySuperBaseElementSelector (part_001 lines       *)
(* 112-214).  Context 0 is cssSelectorBuilder itself, which has neither    *)
(* selector nor actionsChain; context 1 is the object the chain of calls   *)
(* in progress works on.  A call on cssSelectorBuilder starts a new chain. *)
(***************************************************************************)
\* line 186
needActionsSeq ==
    <<"element", "id", "class", "attribute", "pseudo-class", "pseudo-element">>

Methods == {"element", "id", "class", "attr", "pseudoClass", "pseudoElement"}
Values == {"a", "b"}

\* lines 117, 127, 135, 143, 151, 161: the action a method passes
actionOf(m) ==
    CASE m = "element" -> "element"
      [] m = "id" -> "id"
      [] m = "class" -> "class"
      [] m = "attr" -> "attribute"
      [] m = "pseudoClass" -> "pseudo-class"
      [] m = "pseudoElement" -> "pseudo-element"

\* lines 118, 128, 136, 144, 152, 162: the value a method passes
valueOf(m, v) ==
    CASE m = "element" -> v
      [] m = "id" -> "#" \o v
      [] m = "class" -> "." \o v
      [] m = "attr" -> "[" \o v \o "]"
      [] m = "pseudoClass" -> ":" \o v
      [] m = "pseudoElement" -> "::" \o v

\* lines 114, 124, 158: the methods that call checkCantRepeatedAction
ChecksRepeated(m) == m \in {"element", "id", "pseudoElement"}

Builder == [own |-> FALSE, selector |-> "", actionsChain |-> <<>>]
\* lines 191-192
NewSelector == [own |-> TRUE, selector |-> "", actionsChain |-> <<>>]
Context(ctx) == IF ctx = 0 THEN Builder ELSE objs[ctx]

\* lines 179-182
checkCantRepeatedActionThrows(c, action) ==
    c.own /\ indexOf(c.actionsChain, action) > -1

\* lines 201-204
\* (mutant: the order is not checked)
OrderNeverThrows(chain, action) == FALSE
orderThrows(chain, action) ==
    /\ Len(chain) > 0
    /\ indexOf(needActionsSeq, action) < indexOf(needActionsSeq, chain[Len(chain)])

\* lines 188-198: the object the call works on
\* ( 'selector' in context, else a new one )
workOn(c) == IF c.own THEN c ELSE NewSelector

\* How the call of method m on context c ends.
outcome(c, m) ==
    IF ChecksRepeated(m) /\ checkCantRepeatedActionThrows(c, actionOf(m)) THEN "repeated"
    ELSE IF orderThrows(workOn(c).actionsChain, actionOf(m)) THEN "order"
    ELSE "returned"

\* lines 206-211 ( the action is never 'combine' here )
added(c, m, v) ==
    [own |-> TRUE,
     selector |-> workOn(c).selector \o valueOf(m, v),
     actionsChain |-> Append(workOn(c).actionsChain, actionOf(m))]

\* lines 175-177
stringify(c) == IF c.own /\ c.selector /= "" THEN c.selector ELSE ""

otherThanCss == <<snakeVars, stockVars, urlVars, domVars>>

InitCss ==
    /\ objs = <<>> /\ parts = <<>>
    /\ lastCall = [ctx |-> 0, method |-> "", thrown |-> "none"]
    /\ IdleSnake /\ IdleStock /\ IdleUrl /\ IdleDom

\* A call that throws: nothing but the error comes of it.
CssThrow ==
    \E ctx \in 0..Len(objs), m \in Methods :
        /\ outcome(Context(ctx), m) /= "returned"
        /\ lastCall' = [ctx |-> ctx, method |-> m, thrown |-> outcome(Context(ctx), m)]
        /\ UNCHANGED <<objs, parts, otherThanCss>>

\* cssSelectorBuilder.m( v ): a new selector object is returned
CssCreate ==
    \E m \in Methods, v \in Values :
        /\ outcome(Builder, m) = "returned"
        /\ objs' = <<added(Builder, m, v)>>
        /\ parts' = << << <<m, v>> >> >>
        /\ lastCall' = [ctx |-> 0, method |-> m, thrown |-> "none"]
        /\ UNCHANGED otherThanCss

\* selector.m( v ) on the object of the chain: the same object is returned
CssChain ==
    \E ctx \in 1..Len(objs), m \in Methods, v \in Values :
        /\ Len(objs[ctx].actionsChain) < MaxParts
        /\ outcome(objs[ctx], m) = "returned"
        /\ objs' = [objs EXCEPT ![ctx] = added(objs[ctx], m, v)]
        /\ parts' = [parts EXCEPT ![ctx] = Append(@, <<m, v>>)]
        /\ lastCall' = [ctx |-> ctx, method |-> m, thrown |-> "none"]
        /\ UNCHANGED otherThanCss

NextCss == CssThrow \/ CssCreate \/ CssChain

SpecCss == InitCss /\ [][NextCss]_vars

(***************************************************************************)
(* The documented example (lines 12-28): the puzzle and its nine words.    *)
(***************************************************************************)
ExamplePuzzle ==
    << <<"A", "N", "G", "U", "L", "A", "R">>,
       <<"R", "E", "D", "N", "C", "A", "E">>,
       <<"R", "F", "I", "D", "T", "C", "L">>,
       <<"A", "G", "N", "E", "G", "S", "A">>,
       <<"Y", "T", "I", "R", "T", "S", "P">> >>
WordANGULAR == <<"A", "N", "G", "U", "L", "A", "R">>
WordREACT == <<"R", "E", "A", "C", "T">>
WordUNDEFINED == <<"U", "N", "D", "E", "F", "I", "N", "E", "D">>
WordRED == <<"R", "E", "D">>
WordSTRING == <<"S", "T", "R", "I", "N", "G">>
WordCLASS == <<"C", "L", "A", "S", "S">>
WordARRAY == <<"A", "R", "R", "A", "Y">>
WordFUNCTION == <<"F", "U", "N", "C", "T", "I", "O", "N">>
WordNULL == <<"N", "U", "L", "L">>
ExampleFound == {WordANGULAR, WordREACT, WordUNDEFINED, WordRED, WordSTRING,
                 WordCLASS, WordARRAY}
ExampleNotFound == {WordFUNCTION, WordNULL}

InitExample ==
    /\ \E s \in ExampleFound \cup ExampleNotFound : Called(ExamplePuzzle, s)
    /\ IdleStock /\ IdleUrl /\ IdleDom /\ IdleCss

SpecExample == InitExample /\ [][NextSnake]_vars

(***************************************************************************)
(* Simple paths of a grid, defined without the search: PathsOf(p, q, n) is *)
(* the set of simple paths whose characters are the first n of q.          *)
(***************************************************************************)
Cells(p) == UNION {{<<r, c>> : c \in 0..(Len(p[r + 1]) - 1)} : r \in 0..(Len(p) - 1)}
Adjacent(a, b) ==
    \/ a[1] = b[1] /\ (a[2] = b[2] + 1 \/ b[2] = a[2] + 1)
    \/ a[2] = b[2] /\ (a[1] = b[1] + 1 \/ b[1] = a[1] + 1)
CharAtCell(p, cell) == p[cell[1] + 1][cell[2] + 1]

Extends(p, q, path, cell) ==
    /\ Adjacent(path[Len(path)], cell)
    /\ cell \notin Range(path)
    /\ CharAtCell(p, cell) = q[Len(path) + 1]

RECURSIVE PathsOf(_, _, _)
PathsOf(p, q, n) ==
    IF n = 0 THEN {<<>>}
    ELSE IF n = 1 THEN {<<cell>> : cell \in {x \in Cells(p) : CharAtCell(p, x) = q[1]}}
    ELSE UNION {{Append(path, cell) : cell \in {x \in Cells(p) : Extends(p, q, path, x)}} :
                  path \in PathsOf(p, q, n - 1)}

SnakePathExists(p, q) == PathsOf(p, q, Len(q)) /= {}

\* C1: when the call has returned for a non-empty query, the result is true
\* exactly when some simple path (distinct cells, four-directional steps)
\* spells the query.
C1_ResultIffSimplePath ==
    (pc = "done" /\ Len(searchStr) > 0) => (result = Bool(SnakePathExists(puzzle, searchStr)))

\* A call that had to give up a first candidate, undo it and reuse its cell
\* on the way to a match.
C1_Witness ==
    /\ pc = "done" /\ result = "true" /\ Len(searchStr) = 5
    /\ Len(blockedCells) = 5
    /\ blockedCells[1] = <<1, 1>> /\ blockedCells[2] = <<1, 0>>
    /\ <<0, 1>> \in Range(blockedCells)
    /\ Len(puzzle) = 2 /\ puzzle[1][2] = searchStr[2]

\* C2 as claimed: the empty query is found in every non-empty grid.
C2_EmptyQueryTrue ==
    (pc = "done" /\ Len(searchStr) = 0) => (result = "true")

\* C2 as amended: for the empty query the first character is the empty
\* string, which no cell equals: snakeFind is never called and the call
\* returns false.
C2_EmptyQueryFalse ==
    Len(searchStr) = 0 =>
        /\ stack = <<>> /\ blockedCells = <<>> /\ pc \in {"scan", "done"}
        /\ pc = "done" => result = "false"

C2_Witness ==
    /\ pc = "done" /\ Len(searchStr) = 0 /\ result = "false"
    /\ Len(puzzle) = 2 /\ Len(puzzle[1]) = 3

\* The number of times ch occurs in the string s, and in the grid p.
CountIn(s, ch) == Cardinality({k \in DOMAIN s : s[k] = ch})
CountInGrid(p, ch) == Cardinality({cell \in Cells(p) : CharAtCell(p, cell) = ch})
SubMultiset(q, p) == \A ch \in Range(q) : CountIn(q, ch) <= CountInGrid(p, ch)

\* C3: a non-empty query that needs some character more often than the grid
\* holds it (or that the grid does not hold at all) is not found.
C3_NotSubMultisetFalse ==
    (pc = "done" /\ Len(searchStr) > 0 /\ ~SubMultiset(searchStr, puzzle))
        => (result = "false")

\* A search that was started and failed on a grid that holds every character
\* of the query at least twice, but one of them less often than the query.
C3_Witness ==
    /\ pc = "done" /\ result = "false" /\ blockedCells /= <<>>
    /\ ~SubMultiset(searchStr, puzzle)
    /\ \A ch \in Range(searchStr) : CountInGrid(puzzle, ch) >= 2
    /\ Len(searchStr) = 5

\* C4: on the documented 5x7 puzzle ANGULAR, ARRAY, RED, REACT, UNDEFINED,
\* STRING and CLASS are found, FUNCTION and NULL are not.
C4_DocumentedExamples ==
    pc = "done" =>
        /\ searchStr \in ExampleFound => result = "true"
        /\ searchStr \in ExampleNotFound => result = "false"

\* REACT found from the top-right R (the search goes down, left, down, left).
C4_Witness ==
    /\ pc = "done" /\ puzzle = ExamplePuzzle /\ searchStr = WordREACT
    /\ result = "true"
    /\ blockedCells = << <<0, 6>>, <<1, 6>>, <<1, 5>>, <<2, 5>>, <<2, 4>> >>

\* C5: the call never ends in an error, and it ends, with a boolean.
C5_TerminatesWithBoolean ==
    /\ [](pc /= "error")
    /\ <>(pc = "done" /\ result \in {"true", "false"})

\* A search that was started at every cell of a 2x2 grid, failed at each,
\* and returned.
C5_Witness ==
    /\ pc = "done" /\ result = "false" /\ blockedCells = << <<1, 1>> >>
    /\ Len(searchStr) = 4 /\ Len(puzzle) = 2 /\ Len(puzzle[1]) = 2
    /\ \A cell \in Cells(puzzle) : CharAtCell(puzzle, cell) = searchStr[1]

\* C6 as claimed: decoding what encode returned gives the url back.
C6_DecodeEncodeIsIdentity ==
    /\ urlPc /= "error"
    /\ urlPc = "decoded" => original = url

\* Whether the tiles with indices in `left` can continue a row ending in e.
RECURSIVE Continues(_, _, _)
Continues(d, e, left) ==
    \/ left = {}
    \/ \E k \in left :
         \/ d[k][1] = e /\ Continues(d, d[k][2], left \ {k})
         \/ d[k][2] = e /\ Continues(d, d[k][1], left \ {k})
MakesRow(d) ==
    \/ d = <<>>
    \/ \E k \in DOMAIN d :
         \/ Continues(d, d[k][2], DOMAIN d \ {k})
         \/ Continues(d, d[k][1], DOMAIN d \ {k})

\* C7 as claimed: the result is true exactly when all the tiles, each used
\* once, can be put in one row with equal touching ends.
C7_TrueIffRow ==
    domPc = "done" => domResult = Bool(MakesRow(dominoes))

\* The order of the parts in a selector, and the text of each (lines 67-71):
\* element#id.class[attr]:pseudoClass::pseudoElement
Rank(m) ==
    CASE m = "element" -> 1 [] m = "id" -> 2 [] m = "class" -> 3
      [] m = "attr" -> 4 [] m = "pseudoClass" -> 5 [] m = "pseudoElement" -> 6
PartText(part) ==
    CASE part[1] = "element" -> part[2]
      [] part[1] = "id" -> "#" \o part[2]
      [] part[1] = "class" -> "." \o part[2]
      [] part[1] = "attr" -> "[" \o part[2] \o "]"
      [] part[1] = "pseudoClass" -> ":" \o part[2]
      [] part[1] = "pseudoElement" -> "::" \o part[2]
RECURSIVE TextOf(_)
TextOf(ps) == IF ps = <<>> THEN "" ELSE PartText(ps[1]) \o TextOf(Tail(ps))
Once == {"element", "id", "pseudoElement"}

\* The call on selector k would add a part it may hold once a second time,
\* or a part that comes before the part added last.
WouldRepeat(k, m) == m \in Once /\ \E j \in DOMAIN parts[k] : parts[k][j][1] = m
WouldPrecede(k, m) == Rank(m) < Rank(parts[k][Len(parts[k])][1])

\* Every selector built has its parts in order, element, id and
\* pseudo-element at most once, and stringifies to its parts in call order.
WellBuilt(k) ==
    /\ \A i, j \in DOMAIN parts[k] : i < j => Rank(parts[k][i][1]) <= Rank(parts[k][j][1])
    /\ \A i, j \in DOMAIN parts[k] :
          (i /= j /\ parts[k][i][1] \in Once) => parts[k][i][1] /= parts[k][j][1]
    /\ stringify(objs[k]) = TextOf(parts[k])

\* C8: a call that would repeat element, id or pseudo-element, or that would
\* add a part out of order, throws and adds nothing; every selector built
\* is in order, has each of the three at most once, and stringifies to the
\* concatenation of its parts in call order.
C8_OrderAndOnce ==
    /\ [](\A k \in DOMAIN objs : WellBuilt(k))
    /\ [][ LET ctx == lastCall'.ctx
               m == lastCall'.method
           IN  (ctx > 0 /\ (WouldRepeat(ctx, m) \/ WouldPrecede(ctx, m)))
                   => (lastCall'.thrown /= "none" /\ objs' = objs) ]_vars

\* element, class and class added, then id refused for its place.
C8_Witness ==
    /\ Len(objs) = 1 /\ stringify(objs[1]) = "a.b.a"
    /\ lastCall = [ctx |-> 1, method |-> "id", thrown |-> "order"]

\* C9 as claimed: the short link is at least 1.5 times shorter than the url,
\* whatever the url's length.
C9_ShorterForEveryLength ==
    urlPc = "encoded" => 3 * length(shortLink) <= 2 * Len(url)

\* C9 as amended: the short link is at least 1.5 times shorter than the url
\* for every url of two or more characters.
C9_ShorterFromTwo ==
    (urlPc = "encoded" /\ Len(url) >= 2) => 3 * length(shortLink) <= 2 * Len(url)

\* Three characters in two code points: the bound is met exactly.
C9_Witness ==
    urlPc = "encoded" /\ Len(url) = 3 /\ length(shortLink) = 2

\* The most that can be made from day i on holding `held` units: each day
\* buy one unit, sell k of the units held, or do nothing.
RECURSIVE Best(_, _, _)
Best(q, i, held) ==
    IF i > Len(q) THEN 0
    ELSE LET wait == Best(q, i + 1, held)
             buy == Best(q, i + 1, held + 1) - q[i]
             sells == {k * q[i] + Best(q, i + 1, held - k) : k \in 1..held}
             all == {wait, buy} \cup sells
         IN  CHOOSE m \in all : \A x \in all : x <= m

\* C10: the profit returned is the most any sequence of daily actions (buy
\* one unit, sell any number of units held, do nothing) can make.
C10_MostProfit ==
    stockPc = "done" => profit = Best(quotes, 1, 0)

\* Two separate rounds of buying and selling.
C10_Witness ==
    /\ stockPc = "done" /\ quotes = <<1, 3, 0, 2>> /\ profit = 4

\* C11: a call changes neither the grid nor the query, and a second call with
\* the same grid and query returns what the first call returned.
C11_InputsKeptSameResult ==
    /\ [][puzzle' = puzzle /\ searchStr' = searchStr]_vars
    /\ [](pc = "done" => \A k \in DOMAIN earlier : earlier[k] = result)

\* a second call has returned true after a search three cells deep
C11_Witness ==
    /\ pc = "done" /\ earlier = <<"true">> /\ result = "true"
    /\ Len(blockedCells) >= 3

\* C12: in every state of a search the blocked cells are a simple path for the
\* part of the query consumed so far: each cell is in the grid, none occurs
\* twice, each is next to the one before it (up, right, down or left), the
\* k-th cell holds the k-th character of the query; so there are no more of
\* them than cells in the grid, nor than characters in the query.
C12_BlockedIsSimplePath ==
    /\ \A k \in DOMAIN blockedCells :
          /\ blockedCells[k] \in Cells(puzzle)
          /\ k <= Len(searchStr)
          /\ CharAtCell(puzzle, blockedCells[k]) = searchStr[k]
    /\ \A j, k \in DOMAIN blockedCells : j < k => blockedCells[j] /= blockedCells[k]
    /\ \A k \in DOMAIN blockedCells :
          k > 1 => Adjacent(blockedCells[k - 1], blockedCells[k])
    /\ pc \in {"enter", "loop"} =>
          Len(blockedCells) = Len(searchStr) - Len(Top.searchStr)
    /\ Len(blockedCells) <= Len(searchStr)
    /\ puzzle /= <<>> => Len(blockedCells) <= Len(puzzle) * Len(puzzle[1])

\* a search three cells deep that has given up one neighbour and tries another
C12_Witness ==
    /\ pc = "loop" /\ Len(blockedCells) = 3 /\ Top.i = 1
    /\ Len(Top.lettersAround) = 2

\* C13: a call of snakeFind that returns false leaves blockedCells as the call
\* found it; each neighbour is tried with blockedCells as the call found it,
\* the neighbour tried before having been popped; and the attempt at a starting
\* cell begins with blockedCells holding that cell and nothing else.
C13_FalseRestoresBlocked ==
    [][/\ (pc = "loop" /\ pc' = "ret") =>
             (retval' = "false" /\ blockedCells' = Top.entered)
       /\ (pc = "loop" /\ pc' = "enter") => blockedCells = Top.entered
       /\ (pc = "scan" /\ pc' = "enter") => blockedCells' = << <<row, coll>> >>
      ]_vars

\* a call two cells deep has tried two neighbours in vain and is about to
\* return false, in the attempt at a starting cell that is not the first one
C13_Witness ==
    /\ pc = "loop" /\ Len(stack) = 2
    /\ Top.i = 2 /\ Len(Top.lettersAround) = 2
    /\ blockedCells = Top.entered
    /\ <<row, coll>> /= <<0, 0>> /\ puzzle[1][1] = searchStr[1]

\* C14: the result does not depend on the order in which the four helpers are
\* tried: a call that tries them in any order returns what the call with the
\* order of the source (top, right, bottom, left) returned.
C14_SameResultInAnyOrder ==
    pc = "done" => \A k \in DOMAIN earlier : result = earlier[k]

\* the call with the reversed order has found the query going left first
\* where the right neighbour matched as well
C14_Witness ==
    /\ pc = "done" /\ earlier = <<"true">> /\ result = "true"
    /\ order = <<"left", "bottom", "right", "top">>
    /\ Len(blockedCells) >= 2
    /\ blockedCells[1] = <<0, 1>> /\ blockedCells[2] = <<0, 0>>
    /\ Len(puzzle[1]) >= 3 /\ puzzle[1][3] = searchStr[2]

\* a is before b in row-major order
Before(a, b) == a[1] < b[1] \/ (a[1] = b[1] /\ a[2] < b[2])

\* the scan moves to the next cell of the row, or from the end of a row to the
\* start of the next row
ScanInOrder ==
    (pc \in {"scan", "ret"} /\ pc' = "scan") =>
        \/ /\ row' = row /\ coll' = coll + 1
           /\ coll < Len(puzzle[row + 1])
        \/ /\ row' = row + 1 /\ coll' = 0
           /\ coll = Len(puzzle[row + 1])

\* an attempt starts at the cell of the scan, which holds the first character
StartsAtFirstChar ==
    (pc = "scan" /\ pc' = "enter") =>
        /\ row' = row /\ coll' = coll
        /\ <<row, coll>> \in Cells(puzzle)
        /\ Len(searchStr) > 0
        /\ CharAtCell(puzzle, <<row, coll>>) = searchStr[1]

\* after a call returned true: the caller returns true, nothing else changes
TrueOnlyReturns ==
    (pc = "ret" /\ retval = "true") =>
        /\ row' = row /\ coll' = coll /\ blockedCells' = blockedCells
        /\ \/ stack /= <<>> /\ stack' = Caller /\ pc' = "ret" /\ retval' = "true"
           \/ stack = <<>> /\ pc' = "done" /\ result' = "true"

\* C15: the scan goes through the cells in row-major order, one cell at a
\* time; an attempt starts only at a cell that holds the first character of
\* the query; once a call has returned true every step only returns true to
\* the caller, no further cell or neighbour being looked at; so the call
\* that returns true stands at the first cell, in row-major order, from which
\* a path spells the query.
C15_RowMajorFirstSuccess ==
    /\ [][ScanInOrder /\ StartsAtFirstChar /\ TrueOnlyReturns]_vars
    /\ []((pc = "done" /\ result = "true") =>
            /\ blockedCells[1] = <<row, coll>>
            /\ \A path \in PathsOf(puzzle, searchStr, Len(searchStr)) :
                  ~Before(path[1], <<row, coll>>))

\* true was returned from the second row, after an attempt at the first cell
\* of the grid had failed
C15_Witness ==
    /\ pc = "done" /\ result = "true"
    /\ <<row, coll>> = <<1, 1>> /\ Len(blockedCells) >= 3
    /\ puzzle[1][1] = searchStr[1]

\* C16: for the grid of no rows and for the grids with rows of unequal length,
\* with a non-empty query: no helper ends in an error; every blocked cell is a
\* cell of the grid (a position beyond the length of its row is never taken);
\* and the result is true exactly when a simple path over the cells of the
\* grid spells the query, so false for the grid of no rows.
C16_MalformedGridSearched ==
    /\ pc /= "error"
    /\ Range(blockedCells) \subseteq Cells(puzzle)
    /\ pc = "done" => result = Bool(SnakePathExists(puzzle, searchStr))
    /\ (pc = "done" /\ puzzle = <<>>) => result = "false"

\* the path found goes along the longer second row, past the end of the first
\* row: the cell above the last cell of the path does not exist
C16_Witness ==
    /\ pc = "done" /\ result = "true"
    /\ Len(puzzle) = 2 /\ Len(puzzle[1]) = 1 /\ Len(puzzle[2]) = 3
    /\ blockedCells = << <<0, 0>>, <<1, 0>>, <<1, 1>>, <<1, 2>> >>

====
